---- MODULE Spec2Model ----
(***************************************************************************)
(* Model of newModel.py: the Model class (create_model, train), the        *)
(* AlwaysDropout layer and the EarlyStop callback.                         *)
(*                                                                         *)
(* Numbers.  Losses and the stopping target are floats in the program.     *)
(* Here a loss is a positive integer (categorical cross-entropy of clipped *)
(* probabilities is strictly positive) and every quantity derived from     *)
(* losses is an exact rational [num, den] with den > 0, so that all        *)
(* comparisons the code makes are decided exactly.  A dropout rate is      *)
(* given in hundredths (0.25 is 25).                                       *)
(*                                                                         *)
(* The framework.  keras' fit_generator is not part of the file; of it the *)
(* model keeps what train relies on: stop_training is cleared when fit     *)
(* starts, epochs are numbered 0, 1, 2, ..., on_epoch_end is called once   *)
(* at the end of each epoch, the loop leaves after the epoch whose         *)
(* callback set stop_training or after max_epochs epochs, and an exception *)
(* raised in a callback leaves fit_generator and train.                    *)
(***************************************************************************)
EXTENDS Integers, Sequences, FiniteSets, TLC

\* ------------------------------------------------------------------ bounds
MaxClasses == 4
MaxBatch == 2
MaxMinEpochs == 4
MaxEpochs == 5
MaxValLoss == 5

\* The losses an epoch may report: sample magnitudes, enough for each ratio
\* to come out negative, zero and positive.
TrainLossValues == {1, 2, 3}
ValLossValues == {1, 2}
\* The stopping targets tried: -1, 1/10 and the default 1.
Targets == {[num |-> 0 - 1, den |-> 1], [num |-> 1, den |-> 10], [num |-> 1, den |-> 1]}
\* Dropout rates (hundredths; keras clamps a rate to [0, 1]) and the values
\* the training argument of call may take.
Rates == {0, 25, 50, 100}
Trainings == {"None", "True", "False"}
Modes == {"supervised", "active"}
Experiments == {"0", "1"}
ModelPath == "models"

VARIABLES
    pc,            \* "new" | "ready" | "fit" | "done" | "raised"
    config,        \* the ArgumentParser object handed to Model
    fs,            \* the paths that exist on disk
    experiment,    \* train's experiment argument
    layers,        \* self.model: the Sequential's layers, in order
    lastCall,      \* the last AlwaysDropout.call: rate, training, result
    stop_training, \* self.model.stop_training
    epoch,         \* fit_generator's epoch counter (epochs completed)
    calls,         \* number of on_epoch_end calls so far
    logs,          \* the logs of the latest on_epoch_end call
    val_losses,    \* EarlyStop.val_losses
    train_losses,  \* EarlyStop.train_losses
    evals,         \* one entry per 'Training Progress' line printed, with
                   \* the values it was computed from
    loaded,        \* the paths handed to load_weights, in order
    written,       \* the paths the history was pickled to, in order
    error          \* "none", or the exception that left train

vars == <<pc, config, fs, experiment, layers, lastCall, stop_training, epoch,
          calls, logs, val_losses, train_losses, evals, loaded, written, error>>

\* ------------------------------------------------------------------ layers
Layer(kind, n, activation, rate) ==
    [kind |-> kind, n |-> n, activation |-> activation, rate |-> rate]

Conv2D(filters) == Layer("Conv2D", filters, "relu", 0)

BatchNormalization == Layer("BatchNormalization", 0, "none", 0)

MaxPool2D == Layer("MaxPool2D", 0, "none", 0)

Flatten == Layer("Flatten", 0, "none", 0)

Dense(units, activation) == Layer("Dense", units, activation, 0)

AlwaysDropout(rate) == Layer("AlwaysDropout", 0, "none", rate)

\* create_model with a batch-normalization only after the last convolution of
\* the third block.
create_model_sparse_bn(cfg) ==
    <<Conv2D(64), BatchNormalization, Conv2D(64), BatchNormalization, MaxPool2D>>
    \o (IF cfg.bayesian THEN <<AlwaysDropout(25)>> ELSE <<>>)
    \o <<Conv2D(128), BatchNormalization, Conv2D(128), BatchNormalization, MaxPool2D>>
    \o (IF cfg.bayesian THEN <<AlwaysDropout(25)>> ELSE <<>>)
    \o <<Conv2D(256), Conv2D(256), Conv2D(256), BatchNormalization, MaxPool2D>>
    \o (IF cfg.bayesian THEN <<AlwaysDropout(25)>> ELSE <<>>)
    \o <<Flatten, Dense(1024, "relu"), BatchNormalization>>
    \o (IF cfg.bayesian THEN <<AlwaysDropout(25)>> ELSE <<>>)
    \o <<Dense(1024, "relu"), BatchNormalization, Dense(cfg.num_classes, "softmax")>>

\* if self.config.bayesian: model.add(AlwaysDropout(0.25))
BayesianDropout(cfg) == IF cfg.bayesian THEN <<AlwaysDropout(25)>> ELSE <<>>

create_model(cfg) ==
    \* Block 1
    <<Conv2D(64), BatchNormalization, Conv2D(64), BatchNormalization, MaxPool2D>>
    \o BayesianDropout(cfg)
    \* Block 2
    \o <<Conv2D(128), BatchNormalization, Conv2D(128), BatchNormalization, MaxPool2D>>
    \o BayesianDropout(cfg)
    \* Block 3
    \o <<Conv2D(256), BatchNormalization, Conv2D(256), BatchNormalization,
         Conv2D(256), BatchNormalization, MaxPool2D>>
    \o BayesianDropout(cfg)
    \* Block 4
    \o <<Flatten, Dense(1024, "relu"), BatchNormalization>>
    \o BayesianDropout(cfg)
    \o <<Dense(1024, "relu"), BatchNormalization, Dense(cfg.num_classes, "softmax")>>

\* The call of keras' own Dropout, which drops only in the training phase.
AlwaysDropout_call_in_training(rate, training) ==
    IF 0 < rate /\ rate < 100 /\ training = "True" THEN "dropout" ELSE "inputs"

\* AlwaysDropout.call(inputs, training): "dropout" is keras.backend.dropout
\* applied to the inputs, "inputs" is the inputs returned unchanged.
AlwaysDropout_call(rate, training) ==
    IF 0 < rate /\ rate < 100 THEN "dropout" ELSE "inputs"

\* ------------------------------------------------------------------ python
\* A slice index brought into 0 .. len, as s[start:stop] does.
SliceIndex(i, len) ==
    IF i < 0 THEN (IF i + len < 0 THEN 0 ELSE i + len)
    ELSE (IF i > len THEN len ELSE i)

\* s[start:stop] for a python list s (0-based, stop excluded).
PySlice(s, start, stop) ==
    LET a == SliceIndex(start, Len(s))
        b == SliceIndex(stop, Len(s))
    IN  IF a < b THEN SubSeq(s, a + 1, b) ELSE <<>>

RECURSIVE sum(_)
sum(s) == IF s = <<>> THEN 0 ELSE Head(s) + sum(Tail(s))

\* min of a non-empty list (python's min raises ValueError on an empty one;
\* the callers test for that first).
min(s) == CHOOSE x \in {s[i] : i \in 1..Len(s)} : \A i \in 1..Len(s) : x <= s[i]

\* ------------------------------------------------------------------ EarlyStop
\* EarlyStop(self.config.min_epochs, self.config.batch_epochs,
\*           self.config.training_threshold, self.log)
min_epochs == config.min_epochs

batch == config.batch_epochs

target == config.training_threshold

\* A history that keeps the latest loss only.
Recorded_latest_only(losses, value) == <<value>>

\* self.val_losses.append(...), self.train_losses.append(...)
Recorded(losses, value) == Append(losses, value)

\* The interval test without the minimum-epoch floor.
ShouldEvaluate_no_floor(e) == (e + 1) % batch = 0

\* if (epoch + 1) % self.batch == 0 and (epoch + 1) >= self.min_epochs
ShouldEvaluate(e) == (e + 1) % batch = 0 /\ (e + 1) >= min_epochs

\* The windows the two ratios read.  --(self.batch+1) is a double negation:
\* the slice starts at index batch+1 counted from the front.
EarlierVal(vl) == PySlice(vl, 0, 0 - 1)

RecentTrain(tl) == PySlice(tl, 0 - (batch + 1), 0 - 1)

MinWindow(tl) == PySlice(tl, batch + 1, 0 - 1)

\* g_loss with the operands of the division swapped.
g_loss_swapped(vl) ==
    LET m == min(EarlierVal(vl))
    IN  [num |-> 100 * (m - vl[Len(vl)]), den |-> vl[Len(vl)]]

\* g_loss = 100 * ((val_losses[-1] / min(val_losses[:-1])) - 1)
g_loss(vl) ==
    LET m == min(EarlierVal(vl))
    IN  [num |-> 100 * (vl[Len(vl)] - m), den |-> m]

\* t_progress = 1000 * ((sum(train_losses[-(batch+1):-1]) /
\*                       (2 * min(train_losses[--(batch+1):-1]))) - 1)
t_progress(tl) ==
    LET m == min(MinWindow(tl))
    IN  [num |-> 1000 * (sum(RecentTrain(tl)) - 2 * m), den |-> 2 * m]

\* g_loss / t_progress >= self.target.
QuotientExceeds_or_equal(g, t, tgt) ==
    LET n == g.num * t.den
        d == g.den * t.num
    IN  IF d > 0 THEN n * tgt.den >= tgt.num * d
                 ELSE n * tgt.den =< tgt.num * d

\* g_loss / t_progress > self.target, for t_progress # 0.
QuotientExceeds(g, t, tgt) ==
    LET n == g.num * t.den
        d == g.den * t.num
    IN  IF d > 0 THEN n * tgt.den > tgt.num * d
                 ELSE n * tgt.den < tgt.num * d

\* What one call leaves behind: the two lists, stop_training, the progress
\* lines printed so far, and the exception raised ("none" if it returned).
Outcome(vl, tl, stop, ev, exc) ==
    [val_losses |-> vl, train_losses |-> tl, stop_training |-> stop,
     evals |-> ev, raised |-> exc]

\* The decision of lines 144-147 once both ratios are computed.  With
\* t_progress = 0 the division raises ZeroDivisionError on python floats and
\* gives inf, -inf or nan on numpy floats (inf > target, the others not):
\* which of the two the framework hands over is not decided by this file.
Decision(vl, tl, e, g, t) ==
    LET line(stop) == [n |-> e + 1, g_loss |-> g, t_progress |-> t, stopped |-> stop]
        decided(stop) == Outcome(vl, tl, stop_training \/ stop,
                                 Append(evals, line(stop)), "none")
    IN  IF t.num = 0
        THEN {Outcome(vl, tl, stop_training, evals, "ZeroDivisionError"),
              decided(g.num > 0)}
        ELSE {decided(QuotientExceeds(g, t, target))}

\* EarlyStop.on_epoch_end(epoch, logs): the set of its possible outcomes.
on_epoch_end(e, epoch_logs) ==
    LET vl == Recorded(val_losses, epoch_logs.val_loss)
        tl == Recorded(train_losses, epoch_logs.loss)
    IN  IF ShouldEvaluate(e)
        THEN IF EarlierVal(vl) = <<>> \/ MinWindow(tl) = <<>>
             THEN {Outcome(vl, tl, stop_training, evals, "ValueError")}
             ELSE Decision(vl, tl, e, g_loss(vl), t_progress(tl))
        ELSE {Outcome(vl, tl, stop_training, evals, "none")}

\* ------------------------------------------------------------------ train
\* os.path.isdir(path)
isdir(path) == path \in fs.dirs

\* The file load_weights opens exists.
isfile(path) == path \in fs.files

\* if self.config.model_tuning and self.config.mode != 'supervised'
\*    and os.path.isdir(self.config.model_path)
WeightsGuard(cfg) ==
    cfg.model_tuning /\ cfg.mode # "supervised" /\ isdir(cfg.model_path)

\* self.config.model_path + '/weights'
WeightsPath(cfg) == cfg.model_path \o "/weights"

\* The history path without its leading slash.
HistoryPath_relative(exp) == "History/" \o exp

\* '/History/' + experiment
HistoryPath(exp) == "/History/" \o exp

\* ------------------------------------------------------------------ configurations
Config(bayesian, num_classes, model_tuning, mode, mn, b, tgt, mx) ==
    [bayesian |-> bayesian, num_classes |-> num_classes,
     model_tuning |-> model_tuning, mode |-> mode, model_path |-> ModelPath,
     min_epochs |-> mn, batch_epochs |-> b, training_threshold |-> tgt,
     max_epochs |-> mx]

\* What may be on disk: nothing, the model directory alone, or the directory
\* with the weights file in it.
Disks ==
    {[dirs |-> {}, files |-> {}],
     [dirs |-> {ModelPath}, files |-> {}],
     [dirs |-> {ModelPath}, files |-> {ModelPath \o "/weights"}]}

NoDisk == [dirs |-> {}, files |-> {}]

\* Runs that vary the training loop's parameters (no weights to load).
TrainRuns ==
    {[config |-> Config(FALSE, 2, FALSE, "supervised", mn, b, tgt, mx),
      fs |-> NoDisk, experiment |-> "0"] :
        mn \in 0..MaxMinEpochs, b \in 1..MaxBatch, tgt \in Targets, mx \in 1..MaxEpochs}

\* Runs that vary what train does around the loop: the weights to load and
\* the experiment's name.  The loop is one epoch long; with min_epochs = 0 its
\* callback evaluates the decision at that epoch, with min_epochs = 2 it does
\* not.
SetupRuns ==
    {[config |-> Config(bayesian, 2, model_tuning, mode, mn, 1, [num |-> 1, den |-> 1], 1),
      fs |-> disk, experiment |-> exp] :
        bayesian \in BOOLEAN, model_tuning \in BOOLEAN, mode \in Modes,
        mn \in {0, 2}, disk \in Disks, exp \in Experiments}

\* Runs that vary what the model is built from.
BuildRuns ==
    {[config |-> Config(bayesian, num_classes, FALSE, "supervised", 0, 1,
                        [num |-> 1, den |-> 1], 1),
      fs |-> NoDisk, experiment |-> "0"] :
        bayesian \in BOOLEAN, num_classes \in 1..MaxClasses}

NoLogs == [loss |-> 0, val_loss |-> 0]

NoCall == [rate |-> 0, training |-> "None", result |-> "none"]

Start(run) ==
    /\ pc = "new"
    /\ config = run.config
    /\ fs = run.fs
    /\ experiment = run.experiment
    /\ layers = <<>>
    /\ lastCall = NoCall
    /\ stop_training = FALSE
    /\ epoch = 0
    /\ calls = 0
    /\ logs = NoLogs
    /\ val_losses = <<>>
    /\ train_losses = <<>>
    /\ evals = <<>>
    /\ loaded = <<>>
    /\ written = <<>>
    /\ error = "none"

Init == \E run \in TrainRuns \cup SetupRuns : Start(run)

InitBuild == \E run \in BuildRuns : Start(run)

\* ------------------------------------------------------------------ actions
\* Model.__init__: self.model = self.create_model()
Construct ==
    /\ pc = "new"
    /\ layers' = create_model(config)
    /\ pc' = "ready"
    /\ UNCHANGED <<config, fs, experiment, lastCall, stop_training, epoch, calls, logs,
                   val_losses, train_losses, evals, loaded, written, error>>

\* A forward pass through an AlwaysDropout layer.
DropoutCall ==
    /\ pc = "ready"
    /\ \E rate \in Rates, training \in Trainings :
          lastCall' = [rate |-> rate, training |-> training,
                       result |-> AlwaysDropout_call(rate, training)]
    /\ UNCHANGED <<pc, config, fs, experiment, layers, stop_training, epoch, calls, logs,
                   val_losses, train_losses, evals, loaded, written, error>>

\* train up to the first epoch: the weights are loaded if the guard lets them,
\* the EarlyStop callback is built and fit_generator starts.  load_weights
\* raises on a file that is not there.
TrainBegin ==
    /\ pc = "ready"
    /\ loaded' = IF WeightsGuard(config) THEN Append(loaded, WeightsPath(config))
                                         ELSE loaded
    /\ IF WeightsGuard(config) /\ ~isfile(WeightsPath(config))
       THEN /\ pc' = "raised"
            /\ error' = "OSError"
            /\ UNCHANGED <<stop_training, epoch, val_losses, train_losses>>
       ELSE /\ pc' = "fit"
            /\ error' = error
            /\ stop_training' = FALSE
            /\ epoch' = 0
            /\ val_losses' = <<>>
            /\ train_losses' = <<>>
    /\ UNCHANGED <<config, fs, experiment, layers, lastCall, calls, logs, evals, written>>

\* One epoch of fit_generator: the epoch's losses go to on_epoch_end; an
\* exception leaves the loop, otherwise the epoch counter advances.
FitEpoch(epoch_logs) ==
    \E r \in on_epoch_end(epoch, epoch_logs) :
        /\ logs' = epoch_logs
        /\ val_losses' = r.val_losses
        /\ train_losses' = r.train_losses
        /\ stop_training' = r.stop_training
        /\ evals' = r.evals
        /\ calls' = calls + 1
        /\ IF r.raised # "none"
           THEN pc' = "raised" /\ error' = r.raised /\ epoch' = epoch
           ELSE pc' = pc /\ error' = error /\ epoch' = epoch + 1
        /\ UNCHANGED <<config, fs, experiment, layers, lastCall, loaded, written>>

\* while epoch < epochs: ...; if callback_model.stop_training: break
LoopRuns == pc = "fit" /\ epoch < config.max_epochs /\ ~stop_training

Epoch ==
    /\ LoopRuns
    /\ \E loss \in TrainLossValues, val_loss \in ValLossValues :
          FitEpoch([loss |-> loss, val_loss |-> val_loss])

\* An epoch of a run whose validation loss falls strictly from epoch to epoch.
EpochDecreasing ==
    /\ LoopRuns
    /\ \E loss \in TrainLossValues, val_loss \in 1..MaxValLoss :
          /\ val_losses # <<>> => val_loss < val_losses[Len(val_losses)]
          /\ FitEpoch([loss |-> loss, val_loss |-> val_loss])

\* fit_generator has returned: with open('/History/' + experiment, 'wb') ...
TrainWrite ==
    /\ pc = "fit"
    /\ ~LoopRuns
    /\ written' = Append(written, HistoryPath(experiment))
    /\ pc' = "done"
    /\ UNCHANGED <<config, fs, experiment, layers, lastCall, stop_training, epoch,
                   calls, logs, val_losses, train_losses, evals, loaded, error>>

Next == Construct \/ TrainBegin \/ Epoch \/ TrainWrite

NextDecreasing == Construct \/ TrainBegin \/ EpochDecreasing \/ TrainWrite

NextBuild == Construct \/ DropoutCall

Spec == Init /\ [][Next]_vars

SpecDecreasing == Init /\ [][NextDecreasing]_vars

SpecBuild == InitBuild /\ [][NextBuild]_vars

\* ------------------------------------------------------------------ properties
\* Helpers of the statements below.
Sign(x) == IF x > 0 THEN 1 ELSE IF x < 0 THEN 0 - 1 ELSE 0

\* n is a multiple of batch at or past the minimum-epoch floor.
AtIntervalPastFloor(n) == n % config.batch_epochs = 0 /\ n >= config.min_epochs

\* The callback raised (as opposed to load_weights).
CallbackRaised == pc = "raised" /\ error \in {"ValueError", "ZeroDivisionError"}

StrictlyDecreasing(s) == \A i \in 1..(Len(s) - 1) : s[i] > s[i + 1]

\* The quotient g / t, t # 0, is above the rational tgt: the sign of
\* (g/t - tgt), taken from the numerator and the denominator of the difference.
Above(g, t, tgt) ==
    Sign(g.num * t.den * tgt.den - tgt.num * g.den * t.num) * Sign(g.den * t.num) > 0

\* C1: the stopping decision is evaluated only at an epoch whose 1-based number
\* is a multiple of batch and at least min_epochs (every progress line printed,
\* and every exception of the callback, belongs to such an epoch), and a call
\* at any other epoch leaves stop_training (and the progress lines) as they
\* were and returns.
C1_EvaluatedOnlyAtInterval ==
    /\ [](/\ \A i \in 1..Len(evals) : AtIntervalPastFloor(evals[i].n)
          /\ CallbackRaised => AtIntervalPastFloor(calls))
    /\ [][(calls' = calls + 1 /\ ~AtIntervalPastFloor(calls'))
            => (stop_training' = stop_training /\ evals' = evals /\ pc' = "fit")]_vars

\* C1's case: a run with calls that skipped the decision and a call that
\* evaluated it and set stop_training.
C1_Witness ==
    /\ stop_training
    /\ evals # <<>>
    /\ calls > Len(evals)
    /\ config.min_epochs > config.batch_epochs

\* C2: g_loss is positive exactly when the latest validation loss lies above an
\* earlier one's minimum; the evaluation whose quotient g_loss / t_progress is above
\* target sets stop_training in that very call, and no epoch is run after it
\* (a stopped progress line is the last one, and the last on_epoch_end call).
C2_HaltsWhenQuotientAboveTarget ==
    \A i \in 1..Len(evals) :
        LET ev == evals[i] IN
        /\ ev.g_loss.num > 0 <=> \E j \in 1..(ev.n - 1) : val_losses[j] < val_losses[ev.n]
        /\ ev.t_progress.num # 0 =>
              (ev.stopped <=> Above(ev.g_loss, ev.t_progress, config.training_threshold))
        /\ ev.t_progress.num = 0 => (ev.stopped => ev.g_loss.num > 0)
        /\ ev.stopped => (stop_training /\ i = Len(evals) /\ calls = ev.n /\ epoch = ev.n)
        /\ (i = Len(evals) /\ stop_training) => ev.stopped

\* C2's case: the validation loss rose above its minimum, training was still
\* making progress, the quotient passed a positive target and train returned.
C2_Witness ==
    /\ pc = "done"
    /\ evals # <<>>
    /\ evals[Len(evals)].stopped
    /\ evals[Len(evals)].g_loss.num > 0
    /\ evals[Len(evals)].t_progress.num > 0
    /\ config.training_threshold.num > 0

\* C3 as stated: on a strictly decreasing validation loss g_loss is never
\* positive and stop_training is never set.
C3_Original ==
    StrictlyDecreasing(val_losses) =>
        /\ \A i \in 1..Len(evals) : evals[i].g_loss.num <= 0
        /\ ~stop_training

\* C3, amended: on a strictly decreasing validation loss g_loss is never
\* positive at an evaluated epoch, and stop_training is set only by an
\* evaluation whose t_progress is negative or whose target is negative.
C3_DecreasingStopsOnlyOnNegative ==
    StrictlyDecreasing(val_losses) =>
        /\ \A i \in 1..Len(evals) :
              /\ evals[i].g_loss.num <= 0
              /\ evals[i].stopped =>
                    (evals[i].t_progress.num < 0 \/ config.training_threshold.num < 0)
        /\ stop_training => (evals # <<>> /\ evals[Len(evals)].stopped)

\* C3's case: four or more strictly decreasing validation losses, an
\* evaluation that completed, and stop_training set under a positive target.
C3_Witness ==
    /\ StrictlyDecreasing(val_losses)
    /\ Len(val_losses) >= 4
    /\ stop_training
    /\ evals # <<>>
    /\ evals[Len(evals)].g_loss.num < 0
    /\ config.training_threshold.num > 0

\* C4: after k calls of on_epoch_end both lists hold k elements; a call appends
\* the epoch's val_loss to the one and its loss to the other, whether or not
\* it evaluates the decision, and no step removes or changes an element: the
\* earlier list is a prefix of the later one.
C4_OneElementPerEpoch ==
    /\ [](Len(val_losses) = calls /\ Len(train_losses) = calls)
    /\ [][/\ Len(val_losses') \in {Len(val_losses), Len(val_losses) + 1}
          /\ SubSeq(val_losses', 1, Len(val_losses)) = val_losses
          /\ Len(train_losses') \in {Len(train_losses), Len(train_losses) + 1}
          /\ SubSeq(train_losses', 1, Len(train_losses)) = train_losses
          /\ calls' = calls + 1 =>
                (val_losses' = Append(val_losses, logs'.val_loss)
                 /\ train_losses' = Append(train_losses, logs'.loss))
          /\ calls' = calls => (val_losses' = val_losses /\ train_losses' = train_losses)]_vars

\* C4's case: several calls, some that evaluated the decision and some that
\* did not.
C4_Witness ==
    /\ calls >= 4
    /\ evals # <<>>
    /\ Len(evals) < calls
    /\ Len(val_losses) = calls

\* C5 as stated: load_weights is only attempted under the guard, never on a
\* weights file that does not exist, and train does not raise for it.
C5_Original ==
    /\ loaded # <<>> =>
          (config.model_tuning /\ config.mode # "supervised"
           /\ config.model_path \in fs.dirs)
    /\ \A i \in 1..Len(loaded) : loaded[i] \in fs.files
    /\ error # "OSError"

\* C6 as stated: once train has returned the history was written exactly once, to
\* a relative path that is the same whatever the experiment.
C6_Original ==
    pc = "done" =>
        /\ Len(written) = 1
        /\ SubSeq(written[1], 1, 1) # "/"
        /\ \A exp \in Experiments : written[1] = HistoryPath(exp)

\* C6, amended: train writes the history to the absolute path '/History/'
\* followed by the experiment's name; it does so exactly once when the
\* training loop has returned (the epochs are used up or stop_training is set)
\* and not at all before that or when train raised.
C6_WritesAbsoluteExperimentPath ==
    /\ Len(written) = (IF pc = "done" THEN 1 ELSE 0)
    /\ pc = "done" =>
          /\ SubSeq(written[1], 1, 9) = "/History/"
          /\ SubSeq(written[1], 10, Len(written[1])) = experiment
          /\ error = "none"
          /\ (epoch >= config.max_epochs \/ stop_training)

\* C6's case: train returned for the experiment "1".
C6_Witness ==
    /\ pc = "done"
    /\ experiment = "1"
    /\ written = <<"/History/1">>
    /\ calls >= 1

\* C9 as stated: every evaluation of the stopping decision completes without
\* raising.
C9_Original == ~CallbackRaised

\* C10 as stated: the loop runs at most max_epochs epochs with one
\* on_epoch_end call each, and when it has ended before max_epochs epochs then
\* stop_training is set.
C10_Original ==
    /\ calls <= config.max_epochs
    /\ (pc = "done" \/ CallbackRaised) =>
          (calls < config.max_epochs => stop_training)

\* The positions of the layers of one kind, and how many convolutions lie
\* before a position.
Positions(kind) == {i \in 1..Len(layers) : layers[i].kind = kind}

ConvsBefore(p) == Cardinality({i \in Positions("Conv2D") : i < p})

\* C7: whatever the bayesian flag, the model built has seven convolutions with
\* 64, 64, 128, 128, 256, 256, 256 channels in this order, each immediately
\* followed by a batch-normalization; three max-poolings, each right after a
\* batch-normalization and closing a block of 2, 2 and 3 convolutions of one
\* channel count; then one flatten, two dense layers of 1024 units and, as
\* the last layer, a softmax dense layer with num_classes units.
C7_Topology ==
    pc # "new" =>
        LET convs == SelectSeq(layers, LAMBDA l : l.kind = "Conv2D")
            denses == SelectSeq(layers, LAMBDA l : l.kind = "Dense")
            last == layers[Len(layers)]
        IN
        /\ [i \in 1..Len(convs) |-> convs[i].n] = <<64, 64, 128, 128, 256, 256, 256>>
        /\ \A i \in Positions("Conv2D") : layers[i + 1].kind = "BatchNormalization"
        /\ {ConvsBefore(p) : p \in Positions("MaxPool2D")} = {2, 4, 7}
        /\ Cardinality(Positions("MaxPool2D")) = 3
        /\ \A p \in Positions("MaxPool2D") :
              /\ layers[p - 1].kind = "BatchNormalization"
              /\ layers[p - 2].kind = "Conv2D"
              /\ \A i \in Positions("Conv2D") :
                    (i < p /\ \A q \in Positions("MaxPool2D") : q < p => q < i)
                        => layers[i].n = layers[p - 2].n
        /\ Cardinality(Positions("Flatten")) = 1
        /\ \A f \in Positions("Flatten") :
              /\ \A p \in Positions("MaxPool2D") : p < f
              /\ \A d \in Positions("Dense") : f < d
        /\ [i \in 1..Len(denses) |-> denses[i].n] = <<1024, 1024, config.num_classes>>
        /\ last.kind = "Dense"
        /\ last.activation = "softmax"
        /\ last.n = config.num_classes

\* C7's case: a model built with dropout layers in between and three classes.
C7_Witness ==
    /\ pc = "ready"
    /\ config.bayesian
    /\ config.num_classes = 3
    /\ Len(layers) = 27

\* C8: without the bayesian flag the model has no dropout layer; with it it has
\* exactly four AlwaysDropout layers of rate 0.25, one right after each
\* max-pooling and one right after the batch-normalization of the first dense
\* layer; and a call of AlwaysDropout applies dropout exactly when
\* 0 < rate < 1, whatever the training argument, and returns its inputs
\* otherwise.
C8_DropoutToggle ==
    /\ pc # "new" =>
          LET drops == Positions("AlwaysDropout")
              firstDense == CHOOSE d \in Positions("Dense") :
                                \A e \in Positions("Dense") : d <= e
          IN
          /\ Cardinality(drops) = (IF config.bayesian THEN 4 ELSE 0)
          /\ \A d \in drops : layers[d].rate = 25
          /\ config.bayesian =>
                /\ \A p \in Positions("MaxPool2D") : p + 1 \in drops
                /\ firstDense + 2 \in drops
                /\ layers[firstDense + 1].kind = "BatchNormalization"
    /\ lastCall # NoCall =>
          /\ (0 < lastCall.rate /\ lastCall.rate < 100) => lastCall.result = "dropout"
          /\ (lastCall.rate <= 0 \/ lastCall.rate >= 100) => lastCall.result = "inputs"

\* C8's case: a bayesian model, and a call at inference (training false) on a
\* layer of rate 0.25 that applied dropout.
C8_Witness ==
    /\ pc = "ready"
    /\ config.bayesian
    /\ lastCall.rate = 25
    /\ lastCall.training = "False"
    /\ lastCall.result = "dropout"

====
